---- MODULE Spec2Model ----
(***************************************************************************)
(* A model of gitlab-mcp: the GitLab REST adapter (src/gitlab.rs), the     *)
(* discussion-position parser/validator and payload builders               *)
(* (src/tools/gitlab.rs), the five tool operations (src/lib.rs) and the    *)
(* construction of the shared server state (src/state.rs).                 *)
(*                                                                         *)
(* Strings are sequences of symbols.  A symbol is a TLA+ string standing   *)
(* for one character (" ", "/", "a", "{", ...) or for a run of characters  *)
(* no operation looks into (a key such as "base_sha", an error text).      *)
(***************************************************************************)
EXTENDS Integers, Sequences, FiniteSets, TLC

VARIABLES
  req,      \* SpecPos: the request given to a payload builder
  out,      \* SpecPos: what the payload builder returned, or Pending
  url_in,   \* SpecUrl: the (base_url, token) pair given to GitLabClient::new
  url_out,  \* SpecUrl: what GitLabClient::new returned, or Pending
  env,      \* Spec: the process environment (GITLAB_URL, GITLAB_TOKEN)
  config,   \* Spec: the Config given to Server::new
  started,  \* Spec: what Server::new returned, or Pending
  server,   \* Spec: "boot", "ready" or "failed" (Server::new)
  gitlab,   \* Spec: the GitLabClient held by ServerState, or NoClient
  call,     \* Spec: the tool invocation in progress
  wire,     \* Spec: the HTTP requests the current invocation has sent
  tasks     \* SpecConc: the concurrent tool invocations, one per task

vars ==
  <<req, out, url_in, url_out, env, config, started, server, gitlab, call, wire,
    tasks>>

(***************************************************************************)
(* Bounds of the model.                                                    *)
(***************************************************************************)
MaxEdits == 2      \* fields of the well-formed position an input may alter
MaxTasks == 2      \* tool invocations in flight at once
MaxSlashes == 2    \* trailing slashes on a base_url input

(***************************************************************************)
(* str primitives (Rust's std::str), on sequences of symbols.              *)
(***************************************************************************)
Pending == [k |-> "pending"]

None == [some |-> FALSE]
Some(x) == [some |-> TRUE, v |-> x]

is_whitespace(c) == c \in {" ", "\n", "\t"}

is_empty(s) == Len(s) = 0

RECURSIVE trim_start(_)
trim_start(s) ==
  IF Len(s) > 0 /\ is_whitespace(Head(s)) THEN trim_start(Tail(s)) ELSE s

RECURSIVE trim_end(_)
trim_end(s) ==
  IF Len(s) > 0 /\ is_whitespace(s[Len(s)])
  THEN trim_end(SubSeq(s, 1, Len(s) - 1))
  ELSE s

trim(s) == trim_end(trim_start(s))

RECURSIVE trim_end_matches(_, _)
trim_end_matches(s, c) ==
  IF Len(s) > 0 /\ s[Len(s)] = c
  THEN trim_end_matches(SubSeq(s, 1, Len(s) - 1), c)
  ELSE s

ends_with(s, suffix) ==
  /\ Len(suffix) <= Len(s)
  /\ SubSeq(s, Len(s) - Len(suffix) + 1, Len(s)) = suffix

(***************************************************************************)
(* serde_json::Value.  Objects are maps from key strings to values; the    *)
(* model's inputs hold no arrays and only the numbers 0..9.                *)
(***************************************************************************)
JNull == [k |-> "null"]
JBool(b) == [k |-> "bool", b |-> b]
JNum(n) == [k |-> "num", n |-> n]
JStr(s) == [k |-> "str", s |-> s]
JObj(m) == [k |-> "obj", m |-> m]

EmptyMap == [x \in {} |-> JNull]

K(name) == <<name>>

\* Map::insert: the later value of a key replaces the earlier one
MapInsert(m, key, v) ==
  [x \in DOMAIN m \cup {key} |-> IF x = key THEN v ELSE m[x]]

\* The keys the model uses, in the byte order a BTreeMap iterates them
KeyOrder ==
  << K("base_sha"), K("body"), K("confidential"), K("end"), K("extra"),
     K("head_sha"), K("iid"), K("line_code"), K("line_range"),
     K("message"), K("new_line"), K("new_path"), K("old_line"),
     K("old_path"), K("position"), K("position_type"), K("resolve"),
     K("start"), K("start_sha"), K("title"), K("type") >>

\* the keys of a map in iteration order
MapKeys(m) == SelectSeq(KeyOrder, LAMBDA key : key \in DOMAIN m)

Digits == <<"0", "1", "2", "3", "4", "5", "6", "7", "8", "9">>

IsDigit(c) == \E i \in 1..Len(Digits) : Digits[i] = c

DigitValue(c) == (CHOOSE i \in 1..Len(Digits) : Digits[i] = c) - 1

(***************************************************************************)
(* serde_json::to_string / to_string_pretty on a Value: the JSON text, one *)
(* symbol per character or per run of plain characters.                    *)
(***************************************************************************)
RECURSIVE EscapeStr(_)
EscapeStr(s) ==
  IF Len(s) = 0 THEN << >>
  ELSE IF Head(s) \in {"\"", "\\"}
       THEN <<"\\", Head(s)>> \o EscapeStr(Tail(s))
  ELSE IF Head(s) = "\n" THEN <<"\\", "n">> \o EscapeStr(Tail(s))
       ELSE <<Head(s)>> \o EscapeStr(Tail(s))

Quoted(s) == <<"\"">> \o EscapeStr(s) \o <<"\"">>

RECURSIVE Indent(_)
Indent(depth) == IF depth = 0 THEN << >> ELSE <<" ", " ">> \o Indent(depth - 1)

RECURSIVE WriteValue(_, _, _)
RECURSIVE WriteMembers(_, _, _, _)
WriteMembers(m, keys, pretty, depth) ==
  IF Len(keys) = 0 THEN << >>
  ELSE (IF pretty THEN <<"\n">> \o Indent(depth) ELSE << >>)
       \o Quoted(Head(keys))
       \o (IF pretty THEN <<":", " ">> ELSE <<":">>)
       \o WriteValue(m[Head(keys)], pretty, depth)
       \o (IF Len(keys) > 1 THEN <<",">> ELSE << >>)
       \o WriteMembers(m, Tail(keys), pretty, depth)

WriteValue(v, pretty, depth) ==
  CASE v.k = "null" -> <<"null">>
    [] v.k = "bool" -> IF v.b THEN <<"true">> ELSE <<"false">>
    [] v.k = "num" -> <<Digits[v.n + 1]>>
    [] v.k = "str" -> Quoted(v.s)
    [] v.k = "obj" ->
         IF DOMAIN v.m = {} THEN <<"{", "}">>
         ELSE <<"{">> \o WriteMembers(v.m, MapKeys(v.m), pretty, depth + 1)
              \o (IF pretty THEN <<"\n">> \o Indent(depth) ELSE << >>)
              \o <<"}">>

to_string(v) == WriteValue(v, FALSE, 0)

to_string_pretty(v) == WriteValue(v, TRUE, 0)

(***************************************************************************)
(* serde_json::from_str::<Value>: a recursive-descent parse of the text.   *)
(* A result is [ok |-> TRUE, v |-> value, i |-> next position] or          *)
(* [ok |-> FALSE].                                                         *)
(***************************************************************************)
ParseFail == [ok |-> FALSE]

RECURSIVE SkipWs(_, _)
SkipWs(t, i) ==
  IF i <= Len(t) /\ is_whitespace(t[i]) THEN SkipWs(t, i + 1) ELSE i

\* the characters of a string literal, from position i just after the
\* opening quote up to the closing quote
RECURSIVE ParseStrBody(_, _, _)
ParseStrBody(t, i, acc) ==
  IF i > Len(t) THEN ParseFail
  ELSE IF t[i] = "\"" THEN [ok |-> TRUE, v |-> acc, i |-> i + 1]
  ELSE IF t[i] = "\\"
       THEN IF i + 1 <= Len(t) /\ t[i + 1] \in {"\"", "\\"}
            THEN ParseStrBody(t, i + 2, Append(acc, t[i + 1]))
            ELSE IF i + 1 <= Len(t) /\ t[i + 1] = "n"
            THEN ParseStrBody(t, i + 2, Append(acc, "\n"))
            ELSE ParseFail
  ELSE IF t[i] = "\n" THEN ParseFail   \* a raw control character
  ELSE ParseStrBody(t, i + 1, Append(acc, t[i]))

StrResult(s) ==
  IF s.ok THEN [ok |-> TRUE, v |-> JStr(s.v), i |-> s.i] ELSE ParseFail

RECURSIVE ParseValue(_, _)
RECURSIVE ParseMembers(_, _, _)
\* after a member's value: ',' and the next member, or '}'
ParseSeparator(t, e, m) ==
  IF e > Len(t) THEN ParseFail
  ELSE IF t[e] = "," THEN ParseMembers(t, e + 1, m)
  ELSE IF t[e] = "}" THEN [ok |-> TRUE, v |-> JObj(m), i |-> e + 1]
  ELSE ParseFail

\* val is the parse of the value of the member named key
ParseMemberEnd(t, key, val, m) ==
  IF ~val.ok THEN ParseFail
  ELSE ParseSeparator(t, SkipWs(t, val.i), MapInsert(m, key, val.v))

\* at position c the ':' after a key is expected
ParseMemberValue(t, key, c, m) ==
  IF c > Len(t) \/ t[c] # ":" THEN ParseFail
  ELSE ParseMemberEnd(t, key, ParseValue(t, c + 1), m)

\* key is the parse of a member's key
ParseMemberColon(t, key, m) ==
  IF ~key.ok THEN ParseFail
  ELSE ParseMemberValue(t, key.v, SkipWs(t, key.i), m)

ParseMemberKey(t, j, m) ==
  IF j > Len(t) \/ t[j] # "\"" THEN ParseFail
  ELSE ParseMemberColon(t, ParseStrBody(t, j + 1, << >>), m)

\* at position i a key is expected; m holds the members read so far
ParseMembers(t, i, m) == ParseMemberKey(t, SkipWs(t, i), m)

\* e is the position of the first token after '{'
ParseObject(t, e) ==
  IF e <= Len(t) /\ t[e] = "}"
  THEN [ok |-> TRUE, v |-> JObj(EmptyMap), i |-> e + 1]
  ELSE ParseMembers(t, e, EmptyMap)

ParseValueAt(t, j) ==
  IF j > Len(t) THEN ParseFail
  ELSE CASE t[j] = "null" -> [ok |-> TRUE, v |-> JNull, i |-> j + 1]
         [] t[j] = "true" -> [ok |-> TRUE, v |-> JBool(TRUE), i |-> j + 1]
         [] t[j] = "false" -> [ok |-> TRUE, v |-> JBool(FALSE), i |-> j + 1]
         [] IsDigit(t[j]) ->
              \* a number is one digit here; a second digit has no reading
              IF j + 1 <= Len(t) /\ IsDigit(t[j + 1]) THEN ParseFail
              ELSE [ok |-> TRUE, v |-> JNum(DigitValue(t[j])), i |-> j + 1]
         [] t[j] = "\"" -> StrResult(ParseStrBody(t, j + 1, << >>))
         [] t[j] = "{" -> ParseObject(t, SkipWs(t, j + 1))
         [] OTHER -> ParseFail

ParseValue(t, i) == ParseValueAt(t, SkipWs(t, i))

\* one value, then nothing but whitespace
ParseDocument(t, r) ==
  IF r.ok /\ SkipWs(t, r.i) > Len(t) THEN [ok |-> TRUE, v |-> r.v]
  ELSE ParseFail

from_str(t) == ParseDocument(t, ParseValue(t, 1))

(***************************************************************************)
(* rmcp's ErrorData (McpError): a kind, a message and an optional detail.  *)
(* An error text produced by err.to_string() is a string of a few symbols  *)
(* that name the failure; the offending value's rendering is left out.     *)
(***************************************************************************)
invalid_params(message, data) ==
  [kind |-> "invalid_params", message |-> message, data |-> data]

invalid_request(message, data) ==
  [kind |-> "invalid_request", message |-> message, data |-> data]

internal_error(message, data) ==
  [kind |-> "internal_error", message |-> message, data |-> data]

Ok(v) == [ok |-> TRUE, v |-> v]
Err(e) == [ok |-> FALSE, err |-> e]

TypeName(v) ==
  CASE v.k = "null" -> "null"
    [] v.k = "bool" -> "boolean"
    [] v.k = "num" -> "integer"
    [] v.k = "str" -> "string"
    [] v.k = "obj" -> "map"

InvalidType(v, expected) == <<"invalid type: ", TypeName(v), ", expected ", expected>>

MissingField(key) == <<"missing field '">> \o key \o <<"'">>

UnknownVariant(s, expected) == <<"unknown variant '">> \o s \o <<"', expected ", expected>>

(***************************************************************************)
(* serde's derived Deserialize for the position structs, from a Value.     *)
(***************************************************************************)
\* String
de_String(v) == IF v.k = "str" THEN Ok(v.s) ELSE Err(InvalidType(v, "a string"))

\* Option<u32>
de_OptionU32(v) ==
  CASE v.k = "null" -> Ok(None)
    [] v.k = "num" -> Ok(Some(v.n))
    [] OTHER -> Err(InvalidType(v, "u32"))

\* a unit-variant enum with #[serde(rename_all = "lowercase")]
de_UnitEnum(v, variants, expected) ==
  CASE v.k = "str" ->
         IF v.s \in {K(x) : x \in variants} THEN Ok(v.s[1])
         ELSE Err(UnknownVariant(v.s, expected))
    [] v.k = "obj" ->
         IF Cardinality(DOMAIN v.m) # 1
         THEN Err(<<"invalid value: map, expected map with a single key">>)
         ELSE LET key == CHOOSE x \in DOMAIN v.m : TRUE IN
              IF key \notin {K(x) : x \in variants}
              THEN Err(UnknownVariant(key, expected))
              ELSE IF v.m[key].k # "null"
              THEN Err(InvalidType(v.m[key], "unit variant"))
              ELSE Ok(key[1])
    [] OTHER -> Err(InvalidType(v, "string or map"))

\* DiscussionPositionType
de_DiscussionPositionType(v) ==
  de_UnitEnum(v, {"text", "image"}, "'text' or 'image'")

\* DiscussionLinePositionType
de_DiscussionLinePositionType(v) ==
  de_UnitEnum(v, {"new", "old"}, "'new' or 'old'")

\* as default_position_type, with the other variant
default_position_type_Image == "image"

default_position_type == "text"

\* the fields of each struct, in declaration order
StructFields(struct) ==
  CASE struct = "DiscussionPosition" ->
         << K("base_sha"), K("head_sha"), K("start_sha"), K("position_type"),
            K("new_path"), K("old_path"), K("new_line"), K("old_line"),
            K("line_range") >>
    [] struct = "DiscussionLineRange" -> << K("start"), K("end") >>
    [] struct = "DiscussionLineReference" ->
         << K("line_code"), K("type"), K("old_line"), K("new_line") >>

\* as MissingValue, were the String fields marked #[serde(default)]
MissingValue_DefaultString(struct, key) ==
  CASE key \in {K("new_line"), K("old_line")} -> Ok(None)
    [] struct = "DiscussionPosition" /\ key = K("line_range") -> Ok(None)
    [] struct = "DiscussionPosition" /\ key = K("position_type") -> Ok("text")
    [] key \in {K("start"), K("end"), K("type")} -> Err(MissingField(key))
    [] OTHER -> Ok(<< >>)

\* what a field takes when its key is absent: Option fields become None,
\* position_type its default, every other field is an error
MissingValue(struct, key) ==
  CASE key \in {K("new_line"), K("old_line")} -> Ok(None)
    [] struct = "DiscussionPosition" /\ key = K("line_range") -> Ok(None)
    [] struct = "DiscussionPosition" /\ key = K("position_type") ->
         Ok(default_position_type)
    [] OTHER -> Err(MissingField(key))

Range(seq) == {seq[i] : i \in 1..Len(seq)}

SomeIfOk(r) == IF r.ok THEN Ok(Some(r.v)) ELSE r

RECURSIVE DeStruct(_, _)
\* the value of one present field
DeField(struct, key, v) ==
  CASE key \in {K("new_line"), K("old_line")} -> de_OptionU32(v)
    [] key \in {K("base_sha"), K("head_sha"), K("start_sha"), K("new_path"),
                K("old_path"), K("line_code")} -> de_String(v)
    [] key = K("position_type") -> de_DiscussionPositionType(v)
    [] key = K("type") -> de_DiscussionLinePositionType(v)
    [] key = K("line_range") ->
         IF v.k = "null" THEN Ok(None)
         ELSE SomeIfOk(DeStruct("DiscussionLineRange", v))
    [] key \in {K("start"), K("end")} -> DeStruct("DiscussionLineReference", v)

\* got maps each present field to its result, bad lists the present fields
\* that failed and lost the absent fields that have no default
DeResult(struct, m, fields, got, bad, lost) ==
  IF Len(bad) > 0 THEN got[Head(bad)]
  ELSE IF Len(lost) > 0 THEN MissingValue(struct, Head(lost))
  ELSE Ok([key \in Range(fields) |->
             IF key \in DOMAIN m THEN got[key].v
             ELSE MissingValue(struct, key).v])

DeCollect(struct, m, fields, present, got) ==
  DeResult(struct, m, fields, got,
           SelectSeq(present, LAMBDA key : ~got[key].ok),
           SelectSeq(fields, LAMBDA key : /\ key \notin DOMAIN m
                                          /\ ~MissingValue(struct, key).ok))

\* present lists the known fields among the map's entries, in the map's order
DeVisitMap(struct, m, fields, present) ==
  DeCollect(struct, m, fields, present,
            [key \in Range(present) |-> DeField(struct, key, m[key])])

\* visit_map: the entries in the map's order, unknown keys ignored, the
\* first failing field's error returned; then the absent fields in
\* declaration order.  The result maps each field to its typed value.
DeStruct(struct, v) ==
  IF v.k # "obj" THEN Err(InvalidType(v, "struct " \o struct))
  ELSE DeVisitMap(struct, v.m, StructFields(struct),
                  SelectSeq(MapKeys(v.m),
                            LAMBDA key : key \in Range(StructFields(struct))))

\* serde_json::from_value::<DiscussionPosition>
from_value_DiscussionPosition(v) == DeStruct("DiscussionPosition", v)

(***************************************************************************)
(* serde's derived Serialize (serde_json::to_value): an Option field that  *)
(* is None is skipped (skip_serializing_if = "Option::is_none").           *)
(***************************************************************************)
\* a field of type Option<u32>
SerOptionU32(m, key, opt) ==
  IF opt.some THEN MapInsert(m, key, JNum(opt.v)) ELSE m

SerLineReference(r) ==
  JObj(SerOptionU32(
         SerOptionU32(
           MapInsert(MapInsert(EmptyMap, K("line_code"), JStr(r[K("line_code")])),
                     K("type"), JStr(K(r[K("type")]))),
           K("old_line"), r[K("old_line")]),
         K("new_line"), r[K("new_line")]))

SerLineRange(r) ==
  JObj(MapInsert(MapInsert(EmptyMap, K("start"), SerLineReference(r[K("start")])),
                 K("end"), SerLineReference(r[K("end")])))

\* a field of type Option<DiscussionLineRange>
SerOptionLineRange(m, key, opt) ==
  IF opt.some THEN MapInsert(m, key, SerLineRange(opt.v)) ELSE m

\* the six fields that are always written
SerPositionRequired(p) ==
  K("base_sha") :> JStr(p[K("base_sha")])
  @@ K("head_sha") :> JStr(p[K("head_sha")])
  @@ K("start_sha") :> JStr(p[K("start_sha")])
  @@ K("position_type") :> JStr(K(p[K("position_type")]))
  @@ K("new_path") :> JStr(p[K("new_path")])
  @@ K("old_path") :> JStr(p[K("old_path")])

to_value_DiscussionPosition(p) ==
  JObj(SerOptionLineRange(
         SerOptionU32(
           SerOptionU32(SerPositionRequired(p), K("new_line"), p[K("new_line")]),
           K("old_line"), p[K("old_line")]),
         K("line_range"), p[K("line_range")]))

(***************************************************************************)
(* tools/gitlab.rs: validate, parse_discussion_position, the payloads.     *)
(***************************************************************************)
MsgShaRequired ==
  "GitLab discussion position requires base_sha, head_sha, and start_sha"
MsgPathRequired ==
  "GitLab discussion position requires both new_path and old_path"
MsgLineRequired ==
  "GitLab discussion position requires at least one of new_line, old_line, or line_range"
MsgNotJson == "position string is not valid JSON"
MsgNotPosition == "position must be a GitLab discussion position object"

\* as validate, without the trim() before is_empty()
validate_NoTrim(p) ==
  IF \/ is_empty(p[K("base_sha")])
     \/ is_empty(p[K("head_sha")])
     \/ is_empty(p[K("start_sha")])
  THEN Err(invalid_params(MsgShaRequired, None))
  ELSE IF is_empty(p[K("new_path")]) \/ is_empty(p[K("old_path")])
  THEN Err(invalid_params(MsgPathRequired, None))
  ELSE IF ~(p[K("new_line")].some \/ p[K("old_line")].some \/ p[K("line_range")].some)
  THEN Err(invalid_params(MsgLineRequired, None))
  ELSE Ok("unit")

\* DiscussionPosition::validate
validate(p) ==
  IF \/ is_empty(trim(p[K("base_sha")]))
     \/ is_empty(trim(p[K("head_sha")]))
     \/ is_empty(trim(p[K("start_sha")]))
  THEN Err(invalid_params(MsgShaRequired, None))
  ELSE IF is_empty(trim(p[K("new_path")])) \/ is_empty(trim(p[K("old_path")]))
  THEN Err(invalid_params(MsgPathRequired, None))
  ELSE LET has_line == \/ p[K("new_line")].some
                       \/ p[K("old_line")].some
                       \/ p[K("line_range")].some
       IN  IF ~has_line THEN Err(invalid_params(MsgLineRequired, None))
           ELSE Ok("unit")

\* the map_err on serde_json::from_value
position_or_error(r) ==
  IF r.ok THEN r
  ELSE Err(invalid_params(MsgNotPosition, Some(JStr(r.err))))

\* decoded is the value to deserialize, or the failure of from_str
parse_decoded(decoded) ==
  IF ~decoded.ok
  THEN Err(invalid_params(MsgNotJson, Some(JStr(<<"JSON syntax error">>))))
  ELSE position_or_error(from_value_DiscussionPosition(decoded.v))

\* as parse_discussion_position, without the Value::String arm
parse_discussion_position_NoDecode(raw) == parse_decoded(Ok(raw))

parse_discussion_position(raw) ==
  parse_decoded(IF raw.k = "str" THEN from_str(raw.s) ELSE Ok(raw))

map_to_payload(map) == JObj(map)

\* the optional flag of a payload: inserted only if the caller gave it
insert_flag(m, key, flag) ==
  IF flag.some THEN MapInsert(m, key, JBool(flag.v)) ELSE m

\* as insert_flag, with the key always inserted (null when unset)
insert_resolve_OrNull(m, flag) ==
  MapInsert(m, K("resolve"), IF flag.some THEN JBool(flag.v) ELSE JNull)

insert_resolve(m, flag) == insert_flag(m, K("resolve"), flag)

\* serde_json::to_value(&position) cannot fail for this struct (string
\* keys, no custom Serialize), so its map_err branch is never taken.
payload_of_valid(r, position, checked) ==
  IF ~checked.ok THEN checked
  ELSE Ok(map_to_payload(
            insert_resolve(
              MapInsert(MapInsert(EmptyMap, K("body"), JStr(r.body)),
                        K("position"), to_value_DiscussionPosition(position)),
              r.resolve)))

payload_of_parsed(r, position) ==
  IF ~position.ok THEN position
  ELSE payload_of_valid(r, position.v, validate(position.v))

discussion_payload(r) ==
  payload_of_parsed(r, parse_discussion_position(r.position))

note_payload(r) ==
  map_to_payload(insert_flag(MapInsert(EmptyMap, K("body"), JStr(r.body)),
                             K("confidential"), r.confidential))

(***************************************************************************)
(* The requests the payload builders are given.  A position input is the   *)
(* well-formed position with at most MaxEdits of its fields removed or     *)
(* replaced, supplied as a native value or as a JSON-encoded string.       *)
(***************************************************************************)
Absent == [k |-> "absent"]

LineRef == JObj(K("line_code") :> JStr(<<"c">>) @@ K("type") :> JStr(K("new"))
                @@ K("new_line") :> JNum(1))

LineRefNullLine == JObj(K("line_code") :> JStr(<<"c">>) @@ K("type") :> JStr(K("old"))
                        @@ K("old_line") :> JNull)

WellFormedPosition ==
  K("base_sha") :> JStr(<<"a">>) @@ K("head_sha") :> JStr(<<"b">>)
  @@ K("start_sha") :> JStr(<<"c">>) @@ K("new_path") :> JStr(<<"f">>)
  @@ K("old_path") :> JStr(<<"f">>) @@ K("new_line") :> JNum(1)

EditKeys ==
  { K("base_sha"), K("head_sha"), K("start_sha"), K("position_type"),
    K("new_path"), K("old_path"), K("new_line"), K("old_line"),
    K("line_range"), K("extra") }

EditValues(key) ==
  CASE key \in {K("base_sha"), K("head_sha"), K("start_sha")} ->
         {Absent, JStr(<< >>), JStr(<<" ">>), JStr(<<" ", "b", " ">>), JNum(1)}
    [] key = K("position_type") ->
         {JStr(K("text")), JStr(K("image")), JStr(K("bogus")), JNull}
    [] key \in {K("new_path"), K("old_path")} ->
         {Absent, JStr(<< >>), JStr(<<" ">>)}
    [] key = K("new_line") -> {Absent, JNull, JStr(<<"1">>)}
    [] key = K("old_line") -> {JNum(2), JNull}
    [] key = K("line_range") ->
         { JObj(K("start") :> LineRef @@ K("end") :> LineRefNullLine),
           JObj(K("start") :> LineRef),
           JNull }
    [] key = K("extra") -> {JBool(TRUE)}

AllEditValues == UNION {EditValues(key) : key \in EditKeys}

Edits ==
  UNION { {e \in [F -> AllEditValues] : \A key \in F : e[key] \in EditValues(key)}
          : F \in {G \in SUBSET EditKeys : Cardinality(G) <= MaxEdits} }

ApplyEdits(m, e) ==
  LET removed == {key \in DOMAIN e : e[key] = Absent}
  IN  [key \in (DOMAIN m \cup DOMAIN e) \ removed |->
         IF key \in DOMAIN e THEN e[key] ELSE m[key]]

PositionObjects == {JObj(ApplyEdits(WellFormedPosition, e)) : e \in Edits}

\* texts that are no JSON document, and a document encoded twice
BrokenTexts ==
  { << >>, <<"oops">>, <<"{">>,
    SubSeq(to_string(JObj(WellFormedPosition)), 1, 5),
    to_string(JObj(WellFormedPosition)) \o <<"}">> }

PositionInputs ==
  PositionObjects
  \cup {JStr(to_string(p)) : p \in PositionObjects}
  \cup {JStr(t) : t \in BrokenTexts}
  \cup {JNull, JNum(5), JStr(to_string(JNum(5))),
        JStr(to_string_pretty(JObj(WellFormedPosition))),
        JStr(to_string(JStr(to_string(JObj(WellFormedPosition)))))}

OptionBool == {None, Some(TRUE), Some(FALSE)}

Locators == { [project |-> <<"7">>, merge_request_iid |-> 5],
              [project |-> <<"g", "/", "p">>, merge_request_iid |-> 5] }

\* CreateMergeRequestDiscussionRequest
DiscussionRequests ==
  [ tool : {"create_merge_request_discussion"}, locator : Locators,
    body : {<<"hi">>}, position : PositionInputs, resolve : OptionBool ]

\* CreateMergeRequestNoteRequest
NoteRequests ==
  [ tool : {"create_merge_request_note"}, locator : Locators,
    body : {<<"hi">>, << >>}, confidential : OptionBool ]

(***************************************************************************)
(* SpecPos: the payload builders applied to every request.                 *)
(***************************************************************************)
InitPos ==
  /\ req \in DiscussionRequests \cup NoteRequests
  /\ out = Pending
  /\ url_in = Pending /\ url_out = Pending
  /\ env = Pending /\ server = "boot" /\ gitlab = Pending
  /\ config = Pending /\ started = Pending /\ tasks = Pending
  /\ call = Pending /\ wire = << >>

DiscussionPayload ==
  /\ out = Pending
  /\ req.tool = "create_merge_request_discussion"
  /\ out' = discussion_payload(req)
  /\ UNCHANGED <<tasks, config, started, req, url_in, url_out, env, server, gitlab, call, wire>>

NotePayload ==
  /\ out = Pending
  /\ req.tool = "create_merge_request_note"
  /\ out' = Ok(note_payload(req))
  /\ UNCHANGED <<tasks, config, started, req, url_in, url_out, env, server, gitlab, call, wire>>

NextPos == DiscussionPayload \/ NotePayload

SpecPos == InitPos /\ [][NextPos]_vars

(***************************************************************************)
(* gitlab.rs: GitLabClient::new.                                           *)
(***************************************************************************)
ApiV4 == <<"/", "a", "p", "i", "/", "v", "4">>
Api == <<"/", "a", "p", "i">>
V4 == <<"/", "v", "4">>

append_api_v4(trimmed) ==
  IF ends_with(trimmed, ApiV4) THEN trimmed
  ELSE IF ends_with(trimmed, Api) THEN trimmed \o V4
  ELSE trimmed \o ApiV4

\* as normalize_base_url, without trim_end_matches('/')
normalize_base_url_NoStrip(base_url) == append_api_v4(base_url)

\* the base_url that new stores
normalize_base_url(base_url) == append_api_v4(trim_end_matches(base_url, "/"))

\* as GitLabClient_new, without the check of the token
GitLabClient_new_NoTokenCheck(base_url, token, http) ==
  IF is_empty(trim(base_url))
  THEN Err("GITLAB_URL environment variable is empty")
  ELSE IF ~http.ok THEN Err("failed to build the HTTP client")
  ELSE Ok([base_url |-> normalize_base_url(base_url), token |-> token,
           http |-> http.v])

\* http is what Client::builder().user_agent(..).build() returned
GitLabClient_new(base_url, token, http) ==
  IF is_empty(trim(base_url))
  THEN Err("GITLAB_URL environment variable is empty")
  ELSE IF is_empty(trim(token))
  THEN Err("GITLAB_TOKEN environment variable is empty")
  ELSE IF ~http.ok THEN Err("failed to build the HTTP client")
  ELSE Ok([base_url |-> normalize_base_url(base_url), token |-> token,
           http |-> http.v])

HttpBuilds == {Ok("gitlab-mcp/0.1"), Err("builder error")}

RECURSIVE Slashes(_)
Slashes(n) == IF n = 0 THEN << >> ELSE <<"/">> \o Slashes(n - 1)

BaseUrlInputs ==
  { prefix \o middle \o Slashes(n) \o last :
      prefix \in {<< >>, <<"h">>, <<" ">>},
      middle \in {<< >>, Api, ApiV4, V4, <<"/", "a", "p">>, ApiV4 \o Api},
      n \in 0..MaxSlashes,
      last \in {<< >>, <<" ">>} }

TokenInputs == {<< >>, <<" ">>, <<"t">>, <<" ", "t">>}

(***************************************************************************)
(* SpecUrl: GitLabClient::new applied to every (base_url, token) pair.     *)
(***************************************************************************)
InitUrl ==
  /\ url_in \in [base_url : BaseUrlInputs, token : TokenInputs, http : HttpBuilds]
  /\ url_out = Pending
  /\ req = Pending /\ out = Pending
  /\ env = Pending /\ server = "boot" /\ gitlab = Pending
  /\ config = Pending /\ started = Pending /\ tasks = Pending
  /\ call = Pending /\ wire = << >>

GitLabClientNew ==
  /\ url_out = Pending
  /\ url_out' = GitLabClient_new(url_in.base_url, url_in.token, url_in.http)
  /\ UNCHANGED <<tasks, config, started, req, out, url_in, env, server, gitlab, call, wire>>

NextUrl == GitLabClientNew

SpecUrl == InitUrl /\ [][NextUrl]_vars

(***************************************************************************)
(* gitlab.rs: the URLs, handle_response, send_get and send_post.           *)
(***************************************************************************)
\* urlencoding::encode: every byte but ASCII letters, digits, '-', '_', '.'
\* and '~' is percent-encoded
RECURSIVE encode(_)
encode(s) ==
  IF Len(s) = 0 THEN << >>
  ELSE (CASE Head(s) = "/" -> <<"%", "2", "F">>
          [] Head(s) = " " -> <<"%", "2", "0">>
          [] OTHER -> <<Head(s)>>)
       \o encode(Tail(s))

projects_base(client, project) ==
  client.base_url \o <<"/projects/">> \o encode(project)

\* "{}/merge_requests/{}" followed by the endpoint's suffix
merge_request_url(client, locator, suffix) ==
  projects_base(client, locator.project) \o <<"/merge_requests/">>
  \o <<Digits[locator.merge_request_iid + 1]>> \o suffix

EndpointSuffix(tool) ==
  CASE tool = "get_merge_request" -> << >>
    [] tool = "get_merge_request_changes" -> <<"/changes">>
    [] tool = "get_merge_request_versions" -> <<"/versions">>
    [] tool = "create_merge_request_discussion" -> <<"/discussions">>
    [] tool = "create_merge_request_note" -> <<"/notes">>

\* reqwest::StatusCode
BAD_REQUEST == 400
UNAUTHORIZED == 401
FORBIDDEN == 403
NOT_FOUND == 404
UNPROCESSABLE_ENTITY == 422

is_success(status) == 200 <= status /\ status <= 299

\* StatusCode::canonical_reason, for the statuses the model answers with
canonical_reason(status) ==
  CASE status = 100 -> Some(<<"Continue">>)
    [] status = 200 -> Some(<<"OK">>)
    [] status = 201 -> Some(<<"Created">>)
    [] status = 299 -> None
    [] status = 304 -> Some(<<"Not Modified">>)
    [] status = BAD_REQUEST -> Some(<<"Bad Request">>)
    [] status = UNAUTHORIZED -> Some(<<"Unauthorized">>)
    [] status = FORBIDDEN -> Some(<<"Forbidden">>)
    [] status = NOT_FOUND -> Some(<<"Not Found">>)
    [] status = UNPROCESSABLE_ENTITY -> Some(<<"Unprocessable Entity">>)
    [] status = 500 -> Some(<<"Internal Server Error">>)
    [] status = 503 -> Some(<<"Service Unavailable">>)
    [] OTHER -> None

\* as status_error, with 403 left to the catch-all arm
status_error_Forbidden500(status, detail) ==
  CASE status = NOT_FOUND ->
         Err(invalid_params("GitLab resource not found", Some(detail)))
    [] status = UNAUTHORIZED ->
         Err(invalid_request("GitLab authentication failed", Some(detail)))
    [] status \in {BAD_REQUEST, UNPROCESSABLE_ENTITY} ->
         Err(invalid_params("GitLab reported a validation error", Some(detail)))
    [] OTHER -> Err(internal_error("GitLab request failed", Some(detail)))

\* the match on the status
status_error(status, detail) ==
  CASE status = NOT_FOUND ->
         Err(invalid_params("GitLab resource not found", Some(detail)))
    [] status \in {UNAUTHORIZED, FORBIDDEN} ->
         Err(invalid_request("GitLab authentication failed", Some(detail)))
    [] status \in {BAD_REQUEST, UNPROCESSABLE_ENTITY} ->
         Err(invalid_params("GitLab reported a validation error", Some(detail)))
    [] OTHER -> Err(internal_error("GitLab request failed", Some(detail)))

unwrap_or(opt, default) == IF opt.some THEN opt.v ELSE default

\* the detail of a non-success response; parsed is from_str(text)
error_detail(status, text, parsed) ==
  IF is_empty(text)
  THEN JStr(unwrap_or(canonical_reason(status), <<"Unknown GitLab error">>))
  ELSE IF parsed.ok THEN parsed.v
  ELSE JStr(text)

\* as success_value, with a null success when the body is not JSON
success_value_NullOnBadJson(parsed) ==
  IF parsed.ok THEN Ok(parsed.v) ELSE Ok(JNull)

\* the value of a success response; parsed is from_str(text)
success_value(parsed) ==
  IF parsed.ok THEN Ok(parsed.v)
  ELSE Err(internal_error("GitLab returned invalid JSON",
                          Some(JStr(<<"JSON syntax error">>))))

handle_text(status, text, parsed) ==
  IF is_success(status) THEN success_value(parsed)
  ELSE status_error(status, error_detail(status, text, parsed))

\* body is what response.text().await returned
handle_response(status, body) ==
  IF ~body.ok
  THEN Err(internal_error("Failed to read GitLab response body",
                          Some(JStr(<<"error decoding response body">>))))
  ELSE handle_text(status, body.v, from_str(body.v))

\* the map_err of send_get and send_post on a failed send()
send_failed ==
  Err(internal_error("Failed to reach GitLab",
                     Some(JStr(<<"error sending request">>))))

\* the request send_get builds
get_request(client, url) ==
  [method |-> "GET", url |-> url, private_token |-> client.token, json |-> None]

\* the request send_post builds
post_request(client, url, payload) ==
  [method |-> "POST", url |-> url, private_token |-> client.token,
   json |-> Some(payload)]

(***************************************************************************)
(* tools/gitlab.rs: json_result; lib.rs: what a tool operation returns     *)
(* once the client call has given `lower` (`.await?` then json_result).    *)
(***************************************************************************)
json_result(value) ==
  Ok([content |-> <<to_string_pretty(value)>>, is_error |-> FALSE])

\* as tool_return, with every client error replaced by an internal error
tool_return_Reinterpret(lower) ==
  IF lower.ok THEN json_result(lower.v)
  ELSE Err(internal_error("GitLab request failed", lower.err.data))

tool_return(lower) ==
  IF lower.ok THEN json_result(lower.v) ELSE lower

(***************************************************************************)
(* state.rs: ServerState::new; lib.rs: Server::new.                        *)
(***************************************************************************)
\* dotenvy::var on a variable of the environment (None: not set)
dotenvy_var(e, name) ==
  IF ~e[name].some THEN Err(name \o " environment variable is required")
  ELSE Ok(e[name].v)

\* base_url and token are what dotenvy::var returned
client_from_env(base_url, token, http) ==
  IF ~base_url.ok THEN base_url
  ELSE IF ~token.ok THEN token
  ELSE GitLabClient_new(base_url.v, token.v, http)

\* as ServerState_new, with a placeholder client when a Stdio server finds
\* no credentials in the environment
ServerState_new_StdioOffline(cfg, e, http) ==
  IF cfg.server.transport.k = "stdio" /\ ~e["GITLAB_URL"].some
  THEN Ok([base_url |-> <<"offline">> \o ApiV4, token |-> <<"none">>,
           http |-> "gitlab-mcp/0.1"])
  ELSE client_from_env(dotenvy_var(e, "GITLAB_URL"),
                       dotenvy_var(e, "GITLAB_TOKEN"), http)

\* _config is read only under the database feature, which is not compiled in
ServerState_new(cfg, e, http) ==
  client_from_env(dotenvy_var(e, "GITLAB_URL"), dotenvy_var(e, "GITLAB_TOKEN"), http)

(***************************************************************************)
(* Spec: the server is constructed from the environment, then serves tool  *)
(* invocations one after the other.  An invocation is suspended while it   *)
(* awaits send() and while it awaits the response body.                    *)
(***************************************************************************)
Environments ==
  [ GITLAB_URL : {None} \cup {Some(u) : u \in {<< >>, <<" ">>, <<"h">>,
                                                 <<"g">> \o Api \o <<"/">>}},
    GITLAB_TOKEN : {None} \cup {Some(t) : t \in {<< >>, <<" ">>, <<"t">>}} ]

Statuses ==
  { 100, 200, 201, 299, 304, BAD_REQUEST, UNAUTHORIZED, FORBIDDEN, NOT_FOUND,
    UNPROCESSABLE_ENTITY, 500, 503, 599 }

\* response bodies: none, a JSON document, a JSON string, two that are not
\* JSON
Bodies ==
  { << >>,
    to_string(JObj(K("iid") :> JNum(5) @@ K("title") :> JStr(<<"fix bug">>))),
    to_string(JObj(K("message") :> JStr(<<"404 Not Found">>))),
    <<"<", "html", ">">>,
    <<"{", "\"", "iid", "\"", ":">> }

\* positions with at most one field of the well-formed position altered
ServerPositionInputs ==
  LET one == UNION {{(key :> v) : v \in EditValues(key)} : key \in EditKeys}
      few == {JObj(ApplyEdits(WellFormedPosition, e)) : e \in one}
              \cup {JObj(WellFormedPosition)}
  IN  few \cup {JStr(to_string(p)) : p \in few} \cup {JStr(t) : t \in BrokenTexts}

GetRequests(tool) == [tool : {tool}, locator : Locators]

ServerDiscussionRequests ==
  [ tool : {"create_merge_request_discussion"}, locator : Locators,
    body : {<<"hi">>}, position : ServerPositionInputs, resolve : OptionBool ]

Idle == [pc |-> "idle"]

\* Config values: the transport, and the telemetry level, format and file
Configs ==
  [ server : [name : {"test-server"},
              transport : {[k |-> "stdio"], [k |-> "http-streaming", port |-> 8080]}],
    telemetry : [level : {"error", "debug", "verbose"},
                 format : {"pretty", "json"},
                 file : {None, Some("/tmp/test.log")}] ]

\* the two Config values of tests/integration_test.rs
TestConfigs ==
  { [server |-> [name |-> "test-server", transport |-> [k |-> "stdio"]],
     telemetry |-> [level |-> "error", format |-> "pretty", file |-> None]],
    [server |-> [name |-> "test-server", transport |-> [k |-> "stdio"]],
     telemetry |-> [level |-> "debug", format |-> "json",
                    file |-> Some("/tmp/test.log")]] }

Init ==
  /\ env \in Environments
  /\ config \in TestConfigs
  /\ started = Pending
  /\ tasks = Pending
  /\ server = "boot"
  /\ gitlab = Pending
  /\ call = Idle
  /\ wire = << >>
  /\ req = Pending /\ out = Pending /\ url_in = Pending /\ url_out = Pending

\* Server::new: ServerState::new(&config).await?
ServerNew ==
  /\ server = "boot"
  /\ \E http \in HttpBuilds :
       \E state \in {ServerState_new(config, env, http)} :
         IF state.ok
         THEN server' = "ready" /\ gitlab' = state.v /\ started' = Ok("Server")
         ELSE server' = "failed" /\ gitlab' = Pending /\ started' = state
  /\ UNCHANGED <<tasks, config, env, call, wire, req, out, url_in, url_out>>

\* the call and the wire once a tool has called send_get for request r
sent_get(r) ==
  /\ call' = [pc |-> "send", req |-> r]
  /\ wire' = <<get_request(gitlab,
                 merge_request_url(gitlab, r.locator, EndpointSuffix(r.tool)))>>

\* get_merge_request up to its send().await
GetMergeRequest ==
  /\ server = "ready" /\ call.pc = "idle"
  /\ \E r \in GetRequests("get_merge_request") : sent_get(r)
  /\ UNCHANGED <<tasks, config, started, env, server, gitlab, req, out, url_in, url_out>>

\* get_merge_request_changes up to its send().await
GetMergeRequestChanges ==
  /\ server = "ready" /\ call.pc = "idle"
  /\ \E r \in GetRequests("get_merge_request_changes") : sent_get(r)
  /\ UNCHANGED <<tasks, config, started, env, server, gitlab, req, out, url_in, url_out>>

\* get_merge_request_versions up to its send().await
GetMergeRequestVersions ==
  /\ server = "ready" /\ call.pc = "idle"
  /\ \E r \in GetRequests("get_merge_request_versions") : sent_get(r)
  /\ UNCHANGED <<tasks, config, started, env, server, gitlab, req, out, url_in, url_out>>

discussions_url(r) == merge_request_url(gitlab, r.locator, EndpointSuffix(r.tool))

\* as CreateMergeRequestDiscussion, posting before the payload is checked
CreateMergeRequestDiscussion_PostFirst ==
  /\ server = "ready" /\ call.pc = "idle"
  /\ \E r \in ServerDiscussionRequests :
       \E payload \in {discussion_payload(r)} :
         /\ wire' = <<post_request(gitlab, discussions_url(r),
                        IF payload.ok THEN payload.v ELSE JObj(EmptyMap))>>
         /\ IF payload.ok
            THEN call' = [pc |-> "send", req |-> r]
            ELSE call' = [pc |-> "done", req |-> r, lower |-> payload,
                          result |-> tool_return(payload)]
  /\ UNCHANGED <<tasks, config, started, env, server, gitlab, req, out, url_in, url_out>>

\* create_merge_request_discussion up to its send().await, or to its
\* return when discussion_payload fails
CreateMergeRequestDiscussion ==
  /\ server = "ready" /\ call.pc = "idle"
  /\ \E r \in ServerDiscussionRequests :
       \E payload \in {discussion_payload(r)} :
         IF payload.ok
         THEN /\ call' = [pc |-> "send", req |-> r]
              /\ wire' = <<post_request(gitlab, discussions_url(r), payload.v)>>
         ELSE /\ call' = [pc |-> "done", req |-> r, lower |-> payload,
                          result |-> tool_return(payload)]
              /\ wire' = << >>
  /\ UNCHANGED <<tasks, config, started, env, server, gitlab, req, out, url_in, url_out>>

\* create_merge_request_note up to its send().await
CreateMergeRequestNote ==
  /\ server = "ready" /\ call.pc = "idle"
  /\ \E r \in NoteRequests :
       /\ call' = [pc |-> "send", req |-> r]
       /\ wire' = <<post_request(gitlab,
                      merge_request_url(gitlab, r.locator, EndpointSuffix(r.tool)),
                      note_payload(r))>>
  /\ UNCHANGED <<tasks, config, started, env, server, gitlab, req, out, url_in, url_out>>

\* as SendFails, with the request sent once more before giving up
SendFails_Retry ==
  /\ call.pc = "send"
  /\ call' = [pc |-> "done", req |-> call.req, lower |-> send_failed,
              result |-> tool_return(send_failed)]
  /\ wire' = wire \o wire
  /\ UNCHANGED <<tasks, config, started, env, server, gitlab, req, out, url_in, url_out>>

\* send().await fails: the tool returns the mapped error
SendFails ==
  /\ call.pc = "send"
  /\ call' = [pc |-> "done", req |-> call.req, lower |-> send_failed,
              result |-> tool_return(send_failed)]
  /\ UNCHANGED <<tasks, config, started, env, server, gitlab, wire, req, out, url_in, url_out>>

\* send().await gives a response: handle_response starts reading its body
SendResponds ==
  /\ call.pc = "send"
  /\ \E status \in Statuses :
       call' = [pc |-> "body", req |-> call.req, status |-> status]
  /\ UNCHANGED <<tasks, config, started, env, server, gitlab, wire, req, out, url_in, url_out>>

\* response.text().await completes: the rest of handle_response, then the
\* tool's return
HandleResponse ==
  /\ call.pc = "body"
  /\ \E body \in {Ok(t) : t \in Bodies} \cup {Err("body read failed")} :
       \E lower \in {handle_response(call.status, body)} :
         call' = [pc |-> "done", req |-> call.req, status |-> call.status,
                  body |-> body, lower |-> lower, result |-> tool_return(lower)]
  /\ UNCHANGED <<tasks, config, started, env, server, gitlab, wire, req, out, url_in, url_out>>

\* the framework forwards the result; the next invocation may start
Respond ==
  /\ call.pc = "done"
  /\ call' = Idle
  /\ wire' = << >>
  /\ UNCHANGED <<tasks, config, started, env, server, gitlab, req, out, url_in, url_out>>

Next ==
  \/ ServerNew
  \/ GetMergeRequest
  \/ GetMergeRequestChanges
  \/ GetMergeRequestVersions
  \/ CreateMergeRequestDiscussion
  \/ CreateMergeRequestNote
  \/ SendFails
  \/ SendResponds
  \/ HandleResponse
  \/ Respond

Spec == Init /\ [][Next]_vars

(***************************************************************************)
(* SpecNew: Server::new applied to every Config and environment.           *)
(***************************************************************************)
InitNew ==
  /\ env \in Environments
  /\ config \in Configs
  /\ started = Pending
  /\ tasks = Pending
  /\ server = "boot"
  /\ gitlab = Pending
  /\ call = Idle
  /\ wire = << >>
  /\ req = Pending /\ out = Pending /\ url_in = Pending /\ url_out = Pending

NextNew == ServerNew

SpecNew == InitNew /\ [][NextNew]_vars

(***************************************************************************)
(* SpecConc: the server is constructed, then serves up to MaxTasks tool    *)
(* invocations at once.  Each invocation is a task of its own that holds   *)
(* its request, the request it sent and the response it was given; the     *)
(* tasks share the GitLabClient of the ServerState and read it through     *)
(* &self.  A task is suspended at send().await and at text().await, and    *)
(* any other task may run in between.                                      *)
(***************************************************************************)
Tasks == 1..MaxTasks

IdleTask == [pc |-> "idle", wire |-> << >>]

\* requests of the concurrent invocations: a GET, a note, a discussion with
\* a well-formed position and one whose position has no line locator
ConcRequests ==
  { [tool |-> "get_merge_request_versions",
     locator |-> [project |-> <<"7">>, merge_request_iid |-> 5]],
    [tool |-> "create_merge_request_note",
     locator |-> [project |-> <<"g", "/", "p">>, merge_request_iid |-> 5],
     body |-> <<"hi">>, confidential |-> Some(TRUE)],
    [tool |-> "create_merge_request_discussion",
     locator |-> [project |-> <<"7">>, merge_request_iid |-> 5],
     body |-> <<"hi">>, position |-> JObj(WellFormedPosition), resolve |-> None],
    [tool |-> "create_merge_request_discussion",
     locator |-> [project |-> <<"g", "/", "p">>, merge_request_iid |-> 5],
     body |-> <<"hi">>,
     position |-> JObj(ApplyEdits(WellFormedPosition, K("new_line") :> Absent)),
     resolve |-> Some(FALSE)] }

ConcStatuses == {200, NOT_FOUND, 500}

ConcBodies ==
  { Ok(to_string(JObj(K("iid") :> JNum(5)))), Ok(<< >>), Err("body read failed") }

\* the request create_merge_request_discussion sends, or the payload error
discussion_request(client, r, payload) ==
  IF payload.ok
  THEN Ok(post_request(client,
                       merge_request_url(client, r.locator, EndpointSuffix(r.tool)),
                       payload.v))
  ELSE payload

\* the request a tool operation sends for r through client, or the error
\* it returns before sending
outbound(client, r) ==
  CASE r.tool = "create_merge_request_discussion" ->
         discussion_request(client, r, discussion_payload(r))
    [] r.tool = "create_merge_request_note" ->
         Ok(post_request(client,
                         merge_request_url(client, r.locator, EndpointSuffix(r.tool)),
                         note_payload(r)))
    [] OTHER ->
         Ok(get_request(client,
                        merge_request_url(client, r.locator, EndpointSuffix(r.tool))))

\* task t after its tool operation ran up to send().await, or to its return
invoked(r, sent) ==
  IF sent.ok
  THEN [pc |-> "send", req |-> r, wire |-> <<sent.v>>]
  ELSE [pc |-> "done", req |-> r, wire |-> << >>, lower |-> sent,
        result |-> tool_return(sent)]

InitConc ==
  /\ env \in {e \in Environments : e.GITLAB_TOKEN = Some(<<"t">>)}
  /\ config \in TestConfigs
  /\ started = Pending
  /\ server = "boot"
  /\ gitlab = Pending
  /\ call = Idle
  /\ wire = << >>
  /\ tasks = [t \in Tasks |-> IdleTask]
  /\ req = Pending /\ out = Pending /\ url_in = Pending /\ url_out = Pending

\* as Invoke, with the token of the shared client replaced by one derived
\* from the request
Invoke_OverrideToken(t) ==
  /\ server = "ready" /\ tasks[t].pc = "idle"
  /\ \E r \in ConcRequests :
       /\ tasks' = [tasks EXCEPT ![t] = invoked(r, outbound(gitlab, r))]
       /\ gitlab' = [gitlab EXCEPT !.token = r.locator.project]
  /\ UNCHANGED <<env, config, started, server, call, wire, req, out, url_in,
                 url_out>>

\* task t starts a tool operation, which reads the shared client
Invoke(t) ==
  /\ server = "ready" /\ tasks[t].pc = "idle"
  /\ \E r \in ConcRequests :
       tasks' = [tasks EXCEPT ![t] = invoked(r, outbound(gitlab, r))]
  /\ UNCHANGED <<env, config, started, server, gitlab, call, wire, req, out,
                 url_in, url_out>>

\* send().await of task t fails
TaskSendFails(t) ==
  /\ tasks[t].pc = "send"
  /\ tasks' = [tasks EXCEPT ![t] =
                 [pc |-> "done", req |-> tasks[t].req, wire |-> tasks[t].wire,
                  lower |-> send_failed, result |-> tool_return(send_failed)]]
  /\ UNCHANGED <<env, config, started, server, gitlab, call, wire, req, out,
                 url_in, url_out>>

\* send().await of task t gives the response to its request
TaskSendResponds(t) ==
  /\ tasks[t].pc = "send"
  /\ \E status \in ConcStatuses :
       tasks' = [tasks EXCEPT ![t] =
                   [pc |-> "body", req |-> tasks[t].req, wire |-> tasks[t].wire,
                    status |-> status]]
  /\ UNCHANGED <<env, config, started, server, gitlab, call, wire, req, out,
                 url_in, url_out>>

\* text().await of task t completes: the rest of handle_response and the
\* tool's return
TaskHandleResponse(t) ==
  /\ tasks[t].pc = "body"
  /\ \E body \in ConcBodies :
       \E lower \in {handle_response(tasks[t].status, body)} :
         tasks' = [tasks EXCEPT ![t] =
                     [pc |-> "done", req |-> tasks[t].req, wire |-> tasks[t].wire,
                      status |-> tasks[t].status, body |-> body,
                      lower |-> lower, result |-> tool_return(lower)]]
  /\ UNCHANGED <<env, config, started, server, gitlab, call, wire, req, out,
                 url_in, url_out>>

\* the result of task t is forwarded; the task may serve another invocation
TaskRespond(t) ==
  /\ tasks[t].pc = "done"
  /\ tasks' = [tasks EXCEPT ![t] = IdleTask]
  /\ UNCHANGED <<env, config, started, server, gitlab, call, wire, req, out,
                 url_in, url_out>>

NextConc ==
  \/ ServerNew
  \/ \E t \in Tasks : Invoke(t)
  \/ \E t \in Tasks : TaskSendFails(t)
  \/ \E t \in Tasks : TaskSendResponds(t)
  \/ \E t \in Tasks : TaskHandleResponse(t)
  \/ \E t \in Tasks : TaskRespond(t)

SpecConc == InitConc /\ [][NextConc]_vars

(***************************************************************************)
(* Properties of the payload builders (SpecPos).                           *)
(***************************************************************************)
DiscussionDone ==
  out # Pending /\ req.tool = "create_merge_request_discussion"

NoteDone == out # Pending /\ req.tool = "create_merge_request_note"

\* the position value once a string input has been decoded
Decoded == IF req.position.k = "str" THEN from_str(req.position.s)
           ELSE [ok |-> TRUE, v |-> req.position]

Parsed == parse_discussion_position(req.position)

NonEmpty(s) == Len(s) > 0

NonBlank(s) == \E i \in 1..Len(s) : s[i] \notin {" ", "\n", "\t"}

HasLine(p) == p[K("new_line")].some \/ p[K("old_line")].some \/ p[K("line_range")].some

\* C6 as stated: validate succeeds iff the three SHAs and the two paths are
\* non-empty and a line locator is present.
C6_AsStated ==
  (DiscussionDone /\ Parsed.ok) =>
    LET p == Parsed.v IN
    out.ok <=> /\ NonEmpty(p[K("base_sha")]) /\ NonEmpty(p[K("head_sha")])
               /\ NonEmpty(p[K("start_sha")])
               /\ NonEmpty(p[K("new_path")]) /\ NonEmpty(p[K("old_path")])
               /\ HasLine(p)

\* C6 amended: validate succeeds iff base_sha, head_sha and start_sha all
\* hold a non-whitespace character, new_path and old_path both hold one, and
\* at least one of new_line, old_line, line_range is present; otherwise the
\* result is an invalid-params error without detail carrying the message of
\* the first failed group (SHAs, then paths, then line locator), and the
\* three messages are pairwise distinct.
C6_Validate ==
  (DiscussionDone /\ Parsed.ok) =>
    LET p == Parsed.v
        shas == /\ NonBlank(p[K("base_sha")]) /\ NonBlank(p[K("head_sha")])
                /\ NonBlank(p[K("start_sha")])
        paths == NonBlank(p[K("new_path")]) /\ NonBlank(p[K("old_path")])
    IN  /\ validate(p).ok <=> (shas /\ paths /\ HasLine(p))
        /\ out.ok <=> (shas /\ paths /\ HasLine(p))
        /\ ~shas => out = Err(invalid_params(MsgShaRequired, None))
        /\ (shas /\ ~paths) => out = Err(invalid_params(MsgPathRequired, None))
        /\ (shas /\ paths /\ ~HasLine(p)) =>
             out = Err(invalid_params(MsgLineRequired, None))
        /\ Cardinality({MsgShaRequired, MsgPathRequired, MsgLineRequired}) = 3

\* a whitespace-only SHA that is not empty has been rejected
C6_Witness ==
  /\ DiscussionDone /\ Parsed.ok
  /\ Parsed.v[K("head_sha")] = <<" ">>
  /\ ~out.ok /\ out.err.message = MsgShaRequired

\* the position is an object without the key base_sha (resp. with a base_sha
\* of only whitespace) that a base_sha of "a" would make acceptable
WithBaseSha(v) ==
  discussion_payload([req EXCEPT !.position =
                        JObj(MapInsert(v.m, K("base_sha"), JStr(<<"a">>)))])

OmitsBaseSha ==
  /\ DiscussionDone /\ Decoded.ok /\ Decoded.v.k = "obj"
  /\ K("base_sha") \notin DOMAIN Decoded.v.m
  /\ WithBaseSha(Decoded.v).ok

BlankBaseSha ==
  /\ DiscussionDone /\ Decoded.ok /\ Decoded.v.k = "obj"
  /\ K("base_sha") \in DOMAIN Decoded.v.m
  /\ Decoded.v.m[K("base_sha")] \in {JStr(<< >>), JStr(<<" ">>)}
  /\ WithBaseSha(Decoded.v).ok

\* C7 as stated: a position that omits base_sha, well-formed otherwise, is
\* rejected with the SHA-required message.
C7_AsStated ==
  OmitsBaseSha => out = Err(invalid_params(MsgShaRequired, None))

\* C7 amended: a position that omits base_sha, well-formed otherwise, is
\* rejected with an invalid-params error whose message is "position must be
\* a GitLab discussion position object" and whose detail names the missing
\* field; the SHA-required message is what a base_sha that is present but
\* empty or whitespace-only is rejected with.
C7_OmittedBaseSha ==
  /\ OmitsBaseSha =>
       out = Err(invalid_params(MsgNotPosition,
                                Some(JStr(<<"missing field '", "base_sha", "'">>))))
  /\ BlankBaseSha => out = Err(invalid_params(MsgShaRequired, None))

C7_Witness == OmitsBaseSha /\ ~out.ok /\ req.position.k = "obj"

\* C8: a position given as a native value and the same position given as
\* its JSON encoding (compact or pretty-printed) have the same outcome from
\* discussion_payload, payload or error (the native value being an object,
\* or any value but a string, which would itself be decoded); a string that
\* is no JSON document is an invalid-params error whose message is not the
\* schema failure's.
C8_ObjectOrString ==
  DiscussionDone =>
    /\ req.position.k # "str" =>
         /\ discussion_payload(
              [req EXCEPT !.position = JStr(to_string(req.position))]) = out
         /\ discussion_payload(
              [req EXCEPT !.position = JStr(to_string_pretty(req.position))]) = out
    /\ (req.position.k = "str" /\ Decoded.ok /\ Decoded.v.k # "str") =>
         out = discussion_payload([req EXCEPT !.position = Decoded.v])
    /\ (req.position.k = "str" /\ ~Decoded.ok) =>
         /\ ~out.ok
         /\ out.err.kind = "invalid_params"
         /\ out.err.message = MsgNotJson
         /\ out.err.message # MsgNotPosition

\* a position given as a string has produced a payload
C8_Witness ==
  /\ DiscussionDone /\ req.position.k = "str" /\ out.ok
  /\ out.v.m[K("position")].m[K("base_sha")] = JStr(<<"a">>)

RECURSIVE HasNull(_)
HasNull(v) ==
  \/ v.k = "null"
  \/ v.k = "obj" /\ \E key \in DOMAIN v.m : HasNull(v.m[key])

Supplied(key) == key \in DOMAIN Decoded.v.m /\ Decoded.v.m[key] # JNull

\* C9: the discussion payload holds the key resolve iff the caller gave
\* resolve, with the given boolean; the note payload holds confidential iff
\* the caller gave it, with the given boolean; new_line, old_line and
\* line_range are in the payload's position iff the caller gave them, and
\* no payload holds a null anywhere.
C9_OptionalKeys ==
  /\ (DiscussionDone /\ out.ok) =>
       /\ K("resolve") \in DOMAIN out.v.m <=> req.resolve.some
       /\ req.resolve.some => out.v.m[K("resolve")] = JBool(req.resolve.v)
       /\ \A key \in {K("new_line"), K("old_line"), K("line_range")} :
            key \in DOMAIN out.v.m[K("position")].m <=> Supplied(key)
       /\ ~HasNull(out.v)
  /\ NoteDone =>
       /\ out.ok
       /\ K("confidential") \in DOMAIN out.v.m <=> req.confidential.some
       /\ req.confidential.some =>
            out.v.m[K("confidential")] = JBool(req.confidential.v)
       /\ ~HasNull(out.v)

\* a payload built without resolve from a position whose new_line was null
C9_Witness ==
  /\ DiscussionDone /\ out.ok /\ ~req.resolve.some
  /\ K("new_line") \in DOMAIN Decoded.v.m /\ Decoded.v.m[K("new_line")] = JNull
  /\ K("resolve") \notin DOMAIN out.v.m

(***************************************************************************)
(* Properties of GitLabClient::new (SpecUrl).                              *)
(***************************************************************************)
\* the input without its trailing slashes: the prefix that the input
\* extends by slashes only and that does not itself end in a slash
WithoutTrailingSlashes(u) ==
  LET n == CHOOSE n \in 0..Len(u) :
             /\ \A i \in (n + 1)..Len(u) : u[i] = "/"
             /\ n = 0 \/ u[n] # "/"
  IN  SubSeq(u, 1, n)

\* C4: for every base_url that is not empty or whitespace-only (the token
\* being acceptable and the HTTP client built), new stores a base URL that
\* ends in "/api/v4" and in no slash: the input without its trailing
\* slashes if that ends in "/api/v4", with "/v4" appended if it ends in
\* "/api", with "/api/v4" appended otherwise.
C4_BaseUrlNormalized ==
  url_out # Pending =>
    LET t == WithoutTrailingSlashes(url_in.base_url) IN
    /\ (NonBlank(url_in.base_url) /\ NonBlank(url_in.token) /\ url_in.http.ok)
         => url_out.ok
    /\ url_out.ok =>
         LET b == url_out.v.base_url IN
         /\ Len(b) >= 7 /\ SubSeq(b, Len(b) - 6, Len(b)) = ApiV4
         /\ b[Len(b)] # "/"
         /\ ends_with(t, ApiV4) => b = t
         /\ (~ends_with(t, ApiV4) /\ ends_with(t, Api)) => b = t \o V4
         /\ (~ends_with(t, ApiV4) /\ ~ends_with(t, Api)) => b = t \o ApiV4

\* a base_url ending in "/api" and slashes has been normalized
C4_Witness ==
  /\ url_out # Pending /\ url_out.ok
  /\ url_in.base_url = <<"h">> \o Api \o <<"/", "/">>
  /\ url_out.v.base_url = <<"h">> \o ApiV4

(***************************************************************************)
(* Properties of the server and its tool operations (Spec).                *)
(***************************************************************************)
\* the invocation has returned after GitLab answered with a status
Answered == call.pc = "done" /\ "status" \in DOMAIN call

Discussion ==
  call.pc # "idle" /\ call.req.tool = "create_merge_request_discussion"

\* the position of the invocation fails parsing or fails validate
PositionRejected ==
  \/ ~parse_discussion_position(call.req.position).ok
  \/ ~validate(parse_discussion_position(call.req.position).v).ok

KindOfStatus(status) ==
  CASE status = 404 -> "invalid_params"
    [] status \in {401, 403} -> "invalid_request"
    [] status \in {400, 422} -> "invalid_params"
    [] OTHER -> "internal_error"

\* C1 as stated: for every non-success status handle_response returns an
\* error whose kind the status alone determines.
C1_AsStated ==
  (Answered /\ ~(200 <= call.status /\ call.status <= 299)) =>
    /\ ~call.lower.ok
    /\ call.lower.err.kind = KindOfStatus(call.status)

\* C1 amended: for every non-success status handle_response returns an
\* error, never a success value; when the response body has been read, the
\* error's kind is the one the status alone determines (404 invalid-params,
\* 401 and 403 invalid-request, 400 and 422 invalid-params, every other
\* status internal), whatever the body holds; when reading the body fails,
\* the error is internal whatever the status.
C1_StatusMapping ==
  (Answered /\ ~(200 <= call.status /\ call.status <= 299)) =>
    /\ ~call.lower.ok
    /\ call.body.ok => call.lower.err.kind = KindOfStatus(call.status)
    /\ ~call.body.ok => call.lower.err.kind = "internal_error"

\* a 403 with an empty body has become an invalid-request error
C1_Witness ==
  /\ Answered /\ call.status = 403 /\ call.body = Ok(<< >>)
  /\ ~call.lower.ok /\ call.lower.err.kind = "invalid_request"

IsDiscussionPost(request) ==
  /\ request.method = "POST"
  /\ Len(request.url) > 0
  /\ request.url[Len(request.url)] = "/discussions"

\* C2: when the position fails parsing or fails validate,
\* create_merge_request_discussion returns that error and sends nothing; a
\* POST to the discussions endpoint is on the wire only when the position
\* of the invocation has parsed and validated.
C2_NoPostOnInvalidPosition ==
  /\ (Discussion /\ PositionRejected) =>
       /\ call.pc = "done"
       /\ wire = << >>
       /\ ~call.result.ok
       /\ call.result.err.kind = "invalid_params"
       /\ call.result.err.message \in
            {MsgNotJson, MsgNotPosition, MsgShaRequired, MsgPathRequired,
             MsgLineRequired}
  /\ \A i \in 1..Len(wire) :
       IsDiscussionPost(wire[i]) => (Discussion /\ ~PositionRejected)

\* a position without line locator has been refused and nothing was sent
C2_Witness ==
  /\ Discussion /\ call.pc = "done" /\ wire = << >>
  /\ ~call.result.ok /\ call.result.err.message = MsgLineRequired

\* C3 as stated: every invocation has made exactly one HTTP call when it
\* returns.
C3_AsStated == call.pc = "done" => Len(wire) = 1

\* C3 amended: no invocation makes more than one outbound HTTP call (no
\* retry); an invocation that returns has made exactly one, except a
\* create_merge_request_discussion whose position fails parsing or
\* validation, which has made none.
C3_AtMostOneCall ==
  /\ Len(wire) <= 1
  /\ call.pc \in {"send", "body"} => Len(wire) = 1
  /\ call.pc = "done" =>
       (Len(wire) = 1 <=> ~(Discussion /\ PositionRejected))

\* a GET whose send failed has returned after the one call
C3_Witness ==
  /\ call.pc = "done" /\ call.req.tool = "get_merge_request_changes"
  /\ call.lower = send_failed
  /\ Len(wire) = 1 /\ wire[1].method = "GET"

Usable(variable) == variable.some /\ NonBlank(variable.v)

\* C5: construction fails when GITLAB_URL or GITLAB_TOKEN is absent, empty
\* or whitespace-only; a server that is not constructed serves no invocation
\* and has sent nothing, and every request sent carries a token that is not
\* blank.
C5_NoCallWithoutCredentials ==
  /\ (server # "boot" /\ ~(Usable(env.GITLAB_URL) /\ Usable(env.GITLAB_TOKEN)))
       => server = "failed"
  /\ server = "ready" =>
       /\ gitlab.token = env.GITLAB_TOKEN.v
       /\ NonBlank(gitlab.token)
       /\ Len(gitlab.base_url) > 7
  /\ server # "ready" => (call = Idle /\ wire = << >> /\ gitlab = Pending)
  /\ \A i \in 1..Len(wire) : NonBlank(wire[i].private_token)

\* construction has failed on a whitespace-only token
C5_Witness ==
  /\ server = "failed"
  /\ Usable(env.GITLAB_URL) /\ env.GITLAB_TOKEN = Some(<<" ">>)
  /\ call = Idle /\ wire = << >>

\* C10: an error returned by the GitLabClient call or by the position
\* validator is what the tool operation returns, kind, message and detail
\* unchanged, and a tool operation succeeds only if the lower layer did.
C10_ErrorsPropagateUnchanged ==
  call.pc = "done" =>
    /\ ~call.lower.ok =>
         /\ ~call.result.ok
         /\ call.result.err.kind = call.lower.err.kind
         /\ call.result.err.message = call.lower.err.message
         /\ call.result.err.data = call.lower.err.data
    /\ call.result.ok => call.lower.ok

\* a 401 from GitLab has been returned by the tool as it came
C10_Witness ==
  /\ Answered /\ call.status = 401
  /\ call.result = Err(invalid_request("GitLab authentication failed",
                                       Some(JStr(<<"Unauthorized">>))))

\* GitLab answered the invocation with a 2xx status
AnsweredSuccess == Answered /\ 200 <= call.status /\ call.status <= 299

\* C11: after a 2xx answer whose body was read and does not parse as JSON
\* (the empty body included) the operation returns the internal error
\* "GitLab returned invalid JSON"; after a 2xx answer the operation
\* succeeds only when the body was read and parses, the value handed on is
\* the parsed body, and the text returned to the caller parses back to that
\* value.
C11_InvalidJsonIsInternal ==
  AnsweredSuccess =>
    /\ (call.body.ok /\ ~from_str(call.body.v).ok) =>
         /\ ~call.lower.ok /\ ~call.result.ok
         /\ call.result.err.kind = "internal_error"
         /\ call.result.err.message = "GitLab returned invalid JSON"
    /\ call.result.ok =>
         /\ call.body.ok /\ from_str(call.body.v).ok
         /\ call.lower = Ok(from_str(call.body.v).v)
         /\ from_str(call.result.v.content[1]) = call.lower
    /\ (call.body.ok /\ from_str(call.body.v).ok) => call.result.ok

\* a 200 with an empty body has become the invalid-JSON internal error
C11_Witness ==
  /\ AnsweredSuccess /\ call.status = 200 /\ call.body = Ok(<< >>)
  /\ ~call.result.ok /\ call.result.err.kind = "internal_error"
  /\ call.result.err.message = "GitLab returned invalid JSON"

(***************************************************************************)
(* position_type in the outbound payload (SpecPos).                        *)
(***************************************************************************)
\* the input is an object, given natively or as a JSON string
DecodedObject == Decoded.ok /\ Decoded.v.k = "obj"

PositionTypeAbsent ==
  DecodedObject /\ K("position_type") \notin DOMAIN Decoded.v.m

PositionTypeGiven(name) ==
  /\ DecodedObject
  /\ K("position_type") \in DOMAIN Decoded.v.m
  /\ Decoded.v.m[K("position_type")] = [k |-> "str", s |-> <<name>>]

\* position_type of the position in the payload built
PayloadPositionType == out.v.m[K("position")].m[K("position_type")]

\* C12: when the input position has no position_type, the parsed position
\* has position_type text, the payload's position has position_type "text",
\* and for an object input the outcome is the one of the same object with
\* position_type "text" written out; when the input gives "image", the
\* parsed position and the payload's position have "image".
C12_PositionTypeDefault ==
  DiscussionDone =>
    /\ (PositionTypeAbsent /\ Parsed.ok) => Parsed.v[K("position_type")] = "text"
    /\ (PositionTypeAbsent /\ out.ok) =>
         PayloadPositionType = [k |-> "str", s |-> <<"text">>]
    /\ (req.position.k = "obj" /\ PositionTypeAbsent) =>
         out = discussion_payload(
                 [req EXCEPT !.position =
                    [k |-> "obj",
                     m |-> Decoded.v.m @@
                             (K("position_type") :> [k |-> "str", s |-> <<"text">>])]])
    /\ (PositionTypeGiven("image") /\ Parsed.ok) =>
         Parsed.v[K("position_type")] = "image"
    /\ (PositionTypeGiven("image") /\ out.ok) =>
         PayloadPositionType = [k |-> "str", s |-> <<"image">>]

\* a payload has been built from a position without position_type
C12_Witness ==
  /\ DiscussionDone /\ PositionTypeAbsent /\ out.ok
  /\ PayloadPositionType = [k |-> "str", s |-> <<"text">>]

\* a payload has been built from a position of type image
C12_ImageReached ==
  /\ DiscussionDone /\ PositionTypeGiven("image") /\ out.ok
  /\ PayloadPositionType = [k |-> "str", s |-> <<"image">>]

(***************************************************************************)
(* Server::new (SpecNew).                                                  *)
(***************************************************************************)
Constructed == server # "boot"

StdioConfig == config.server.transport.k = "stdio"

CredentialsSet == Usable(env.GITLAB_URL) /\ Usable(env.GITLAB_TOKEN)

ClientAtConstruction ==
  [base_url |-> normalize_base_url(env.GITLAB_URL.v),
   token |-> env.GITLAB_TOKEN.v, http |-> "gitlab-mcp/0.1"]

\* what invocation c has sent and returned follows from its own request,
\* the client as constructed, and the response to its own call
OwnOutcome(c) ==
  /\ c.pc \in {"send", "body"} =>
       c.wire = <<outbound(ClientAtConstruction, c.req).v>>
  /\ c.pc = "done" =>
       IF "status" \in DOMAIN c
       THEN /\ c.wire = <<outbound(ClientAtConstruction, c.req).v>>
            /\ c.result = tool_return(handle_response(c.status, c.body))
       ELSE IF outbound(ClientAtConstruction, c.req).ok
       THEN /\ c.wire = <<outbound(ClientAtConstruction, c.req).v>>
            /\ c.result = send_failed
       ELSE /\ c.wire = << >>
            /\ c.result = outbound(ClientAtConstruction, c.req)

\* a step leaves the constructed client as it is and moves at most one
\* invocation
OneInvocationMoves ==
  /\ server = "ready" => gitlab' = gitlab
  /\ \A t \in Tasks : \A u \in Tasks \ {t} :
       tasks'[t] # tasks[t] => tasks'[u] = tasks[u]

\* C14: under every interleaving of the invocations, the shared client keeps
\* the base_url and token it was constructed with, no step of one
\* invocation changes another, and what each invocation sends and returns
\* is the outcome of its own request and of the response to its own call.
C14_InvocationsIndependent ==
  /\ [](server = "ready" =>
          /\ gitlab = ClientAtConstruction
          /\ \A t \in Tasks : tasks[t].pc # "idle" => OwnOutcome(tasks[t]))
  /\ [][OneInvocationMoves]_vars

\* an invocation has returned its 404 while another, for a different
\* request, still awaits the body of its 200
C14_Witness ==
  /\ server = "ready"
  /\ tasks[1].pc = "done" /\ "status" \in DOMAIN tasks[1]
  /\ tasks[1].status = 404 /\ ~tasks[1].result.ok
  /\ tasks[1].result.err.kind = "invalid_params"
  /\ tasks[2].pc = "body" /\ tasks[2].status = 200
  /\ tasks[1].req.tool # tasks[2].req.tool
  /\ gitlab = ClientAtConstruction

====
